---- MODULE Spec2Model ----
(***************************************************************************)
(* The frame loop of the game tutorial (src/src/main.rs): entity setup,    *)
(* input polling, the Pending Command resource, the four dispatched        *)
(* systems, commit, render and sleep.  The bodies of the systems live in   *)
(* modules (keyboard, ai, physics, animator) whose files are not part of   *)
(* the sources at hand; they are modelled from the written specification.  *)
(***************************************************************************)
EXTENDS Integers, Sequences, FiniteSets, TLC

VARIABLES
    pc,                 \* position of main: top, poll, dispatch, render, sleep, done, failed
    i,                  \* the frame counter of main (line 146)
    movement_command,   \* the local of the loop body (line 148)
    resource,           \* the Option<MovementCommand> resource of the world
    done,               \* systems that have finished in the dispatch in progress
    tags,               \* entity -> set of marker components
    position,           \* entity -> Position
    velocity,           \* entity -> Velocity
    sprite,             \* entity -> Sprite
    animation,          \* entity -> MovementAnimation
    pump,               \* events the event pump still holds for this iteration
    polled,             \* history: events taken from the pump in this iteration
    relevant,           \* history: last polled event that set the command, until it is written
    count,              \* history: how often each step of the loop has run
    prev,               \* history: the components at the end of the previous frame
    moved,              \* history: the last Move applied by Keyboard and the physics steps since
    aiUsed,             \* history: velocity assignments the AI has made so far
    twin,               \* second run of the update, used by the two-run specification
    walk,               \* history: entity -> frame indices displayed in the walk in progress
    part,               \* <<system, entity>> pairs updated in the dispatch in progress
    call                \* arguments and result of one call of a pure function

vars == <<pc, i, movement_command, resource, done, tags, position, velocity,
          sprite, animation, pump, polled, relevant, count, prev, moved,
          aiUsed, twin, walk, part, call>>

(***************************************************************************)
(* Bounds of the model.                                                    *)
(***************************************************************************)
MaxFrames == 2

MaxAIChanges == 1

\* Frames of the run that follows one walk through more than a whole cycle.
MaxWalkFrames == 8

\* Frames of the run in which Physics and Animator update entity by entity.
MaxSplitFrames == 1

\* Frames of the run that follows the frame counter through a whole round.
MaxCounterFrames == 256

MaxEvents == 2

(***************************************************************************)
(* Values.                                                                 *)
(***************************************************************************)
Directions == {"Up", "Down", "Left", "Right"}

NoCommand == [kind |-> "None"]

Stop == [kind |-> "Stop"]

Move(d) == [kind |-> "Move", dir |-> d]

Commands == {NoCommand, Stop} \cup {Move(d) : d \in Directions}

Keycodes == {"Escape", "Left", "Right", "Up", "Down", "A"}

Events ==
    {[type |-> "Quit", keycode |-> "NoKey", repeat |-> FALSE],
     [type |-> "Other", keycode |-> "NoKey", repeat |-> FALSE]}
    \cup [type : {"KeyDown", "KeyUp"}, keycode : Keycodes, repeat : BOOLEAN]

NoEvent == [type |-> "NoEvent", keycode |-> "NoKey", repeat |-> FALSE]

Point(px, py) == [x |-> px, y |-> py]

Rect(rx, ry, rw, rh) == [x |-> rx, y |-> ry, w |-> rw, h |-> rh]

(***************************************************************************)
(* Sprite sheets and entity creation.                                      *)
(***************************************************************************)
\* Variant: the rows of Left and Right are exchanged.
direction_spritesheet_row_Mirrored(direction) ==
    CASE direction = "Up" -> 3
      [] direction = "Down" -> 0
      [] direction = "Left" -> 2
      [] direction = "Right" -> 1

direction_spritesheet_row(direction) ==
    CASE direction = "Up" -> 3
      [] direction = "Down" -> 0
      [] direction = "Left" -> 1
      [] direction = "Right" -> 2

character_animation_frames(spritesheet, top_left_frame, direction) ==
    LET frame_width == top_left_frame.w
        frame_height == top_left_frame.h
        y_offset == top_left_frame.y
                    + frame_height * direction_spritesheet_row(direction)
    IN  [k \in 1..3 |->
            [spritesheet |-> spritesheet,
             region |-> Rect(top_left_frame.x + frame_width * (k - 1),
                             y_offset, frame_width, frame_height)]]

MovementAnimation(spritesheet, top_left_frame) ==
    [current_frame |-> 0,
     up_frames |-> character_animation_frames(spritesheet, top_left_frame, "Up"),
     down_frames |-> character_animation_frames(spritesheet, top_left_frame, "Down"),
     left_frames |-> character_animation_frames(spritesheet, top_left_frame, "Left"),
     right_frames |-> character_animation_frames(spritesheet, top_left_frame, "Right")]

\* Variant: the player is also given the Enemy marker.
initialize_player_AlsoEnemy(player_spritesheet) ==
    LET player_top_left_frame == Rect(0, 0, 26, 36)
        player_animation == MovementAnimation(player_spritesheet, player_top_left_frame)
    IN  [tags |-> {"KeyboardControlled", "Enemy"},
         position |-> Point(0, 0),
         velocity |-> [speed |-> 0, direction |-> "Right"],
         sprite |-> player_animation.right_frames[1],
         animation |-> player_animation]

initialize_player(player_spritesheet) ==
    LET player_top_left_frame == Rect(0, 0, 26, 36)
        player_animation == MovementAnimation(player_spritesheet, player_top_left_frame)
    IN  [tags |-> {"KeyboardControlled"},
         position |-> Point(0, 0),
         velocity |-> [speed |-> 0, direction |-> "Right"],
         sprite |-> player_animation.right_frames[1],
         animation |-> player_animation]

\* Variant: the enemy is created facing Left.
initialize_enemy_FacingLeft(enemy_spritesheet, at) ==
    LET enemy_top_left_frame == Rect(0, 0, 32, 36)
        enemy_animation == MovementAnimation(enemy_spritesheet, enemy_top_left_frame)
    IN  [tags |-> {"Enemy"},
         position |-> at,
         velocity |-> [speed |-> 0, direction |-> "Left"],
         sprite |-> enemy_animation.left_frames[1],
         animation |-> enemy_animation]

\* Variant: the enemy is also given the KeyboardControlled marker.
initialize_enemy_Controlled(enemy_spritesheet, at) ==
    LET enemy_top_left_frame == Rect(0, 0, 32, 36)
        enemy_animation == MovementAnimation(enemy_spritesheet, enemy_top_left_frame)
    IN  [tags |-> {"Enemy", "KeyboardControlled"},
         position |-> at,
         velocity |-> [speed |-> 0, direction |-> "Right"],
         sprite |-> enemy_animation.right_frames[1],
         animation |-> enemy_animation]

initialize_enemy(enemy_spritesheet, at) ==
    LET enemy_top_left_frame == Rect(0, 0, 32, 36)
        enemy_animation == MovementAnimation(enemy_spritesheet, enemy_top_left_frame)
    IN  [tags |-> {"Enemy"},
         position |-> at,
         velocity |-> [speed |-> 0, direction |-> "Right"],
         sprite |-> enemy_animation.right_frames[1],
         animation |-> enemy_animation]

\* The entities main creates, in creation order (lines 136-143).
Created ==
    LET player_spritesheet == 0
        enemy_spritesheet == 1
    IN  <<initialize_player(player_spritesheet),
          initialize_enemy(enemy_spritesheet, Point(-150, -150)),
          initialize_enemy(enemy_spritesheet, Point(150, -190)),
          initialize_enemy(enemy_spritesheet, Point(-150, 170))>>

Entities == DOMAIN Created

(***************************************************************************)
(* The dispatcher (lines 116-121).                                         *)
(***************************************************************************)
Systems == {"Keyboard", "AI", "Physics", "Animator"}

\* Variant: Physics is registered as depending on Keyboard alone.
Dependencies_PhysicsSkipsAI(system) ==
    CASE system = "Keyboard" -> {}
      [] system = "AI" -> {}
      [] system = "Physics" -> {"Keyboard"}
      [] system = "Animator" -> {"Keyboard", "AI"}

\* Variant: Animator is registered as depending on Keyboard alone.
Dependencies_AnimatorSkipsAI(system) ==
    CASE system = "Keyboard" -> {}
      [] system = "AI" -> {}
      [] system = "Physics" -> {"Keyboard", "AI"}
      [] system = "Animator" -> {"Keyboard"}

Dependencies(system) ==
    CASE system = "Keyboard" -> {}
      [] system = "AI" -> {}
      [] system = "Physics" -> {"Keyboard", "AI"}
      [] system = "Animator" -> {"Keyboard", "AI"}

(***************************************************************************)
(* The event match of the loop body (lines 151-175).                       *)
(***************************************************************************)
IsQuit(event) ==
    \/ event.type = "Quit"
    \/ event.type = "KeyDown" /\ event.keycode = "Escape"

IsArrow(keycode) == keycode \in {"Left", "Right", "Up", "Down"}

\* Variant: the key-down arms do not test the repeat flag.
HandleEvent_IgnoresRepeat(event, command) ==
    IF event.type = "KeyDown" /\ IsArrow(event.keycode)
    THEN [kind |-> "Move", dir |-> event.keycode]
    ELSE IF event.type = "KeyUp" /\ IsArrow(event.keycode) /\ ~event.repeat
    THEN [kind |-> "Stop"]
    ELSE command

\* Variant: a key-up stops only the movement its own key started.
HandleEvent_StopsOwnKey(event, command) ==
    IF event.type = "KeyDown" /\ IsArrow(event.keycode) /\ ~event.repeat
    THEN Move(event.keycode)
    ELSE IF /\ event.type = "KeyUp" /\ IsArrow(event.keycode) /\ ~event.repeat
            /\ command = Move(event.keycode)
    THEN Stop
    ELSE command

\* The value movement_command holds after the match arm of a non-quit event.
HandleEvent(event, command) ==
    IF event.type = "KeyDown" /\ IsArrow(event.keycode) /\ ~event.repeat
    THEN Move(event.keycode)
    ELSE IF event.type = "KeyUp" /\ IsArrow(event.keycode) /\ ~event.repeat
    THEN Stop
    ELSE command

\* Whether the match arm of the event assigns movement_command.
SetsCommand(event) ==
    /\ event.type \in {"KeyDown", "KeyUp"}
    /\ IsArrow(event.keycode)
    /\ ~event.repeat

(***************************************************************************)
(* The systems, from the written specification (sections 4.2 to 4.5).      *)
(***************************************************************************)
PLAYER_MOVEMENT_SPEED == 20

ENEMY_MOVEMENT_SPEED == 10

FRAME_DIVISOR == 2

\* Variant: Stop also resets the direction.
KeyboardRun_StopResets(tg, vel, command) ==
    [e \in DOMAIN vel |->
        IF "KeyboardControlled" \in tg[e]
        THEN CASE command.kind = "Move" ->
                    [speed |-> PLAYER_MOVEMENT_SPEED, direction |-> command.dir]
               [] command.kind = "Stop" ->
                    [speed |-> 0, direction |-> "Right"]
               [] OTHER -> vel[e]
        ELSE vel[e]]

\* Keyboard: the velocity of the tagged entities after the command.
KeyboardRun(tg, vel, command) ==
    [e \in DOMAIN vel |->
        IF "KeyboardControlled" \in tg[e]
        THEN CASE command.kind = "Move" ->
                    [speed |-> PLAYER_MOVEMENT_SPEED, direction |-> command.dir]
               [] command.kind = "Stop" ->
                    [vel[e] EXCEPT !.speed = 0]
               [] OTHER -> vel[e]
        ELSE vel[e]]

\* What the AI may decide for one enemy in one frame: nothing, halt, or walk.
Keep == [kind |-> "Keep"]

AIDecisions == {Keep, Stop} \cup {Move(d) : d \in Directions}

\* AI: the velocity of the Enemy entities after the decisions.
AIRun(tg, vel, decision) ==
    [e \in DOMAIN vel |->
        IF "Enemy" \in tg[e]
        THEN CASE decision[e].kind = "Move" ->
                    [speed |-> ENEMY_MOVEMENT_SPEED, direction |-> decision[e].dir]
               [] decision[e].kind = "Stop" ->
                    [vel[e] EXCEPT !.speed = 0]
               [] OTHER -> vel[e]
        ELSE vel[e]]

\* Variant: Up and Down are exchanged (y grows upwards).
StepVector_UpGrowsY(direction, speed) ==
    CASE direction = "Up" -> Point(0, speed)
      [] direction = "Down" -> Point(0, -speed)
      [] direction = "Left" -> Point(-speed, 0)
      [] direction = "Right" -> Point(speed, 0)

StepVector(direction, speed) ==
    CASE direction = "Up" -> Point(0, -speed)
      [] direction = "Down" -> Point(0, speed)
      [] direction = "Left" -> Point(-speed, 0)
      [] direction = "Right" -> Point(speed, 0)

\* Variant: every entity is displaced by the fixed player speed, whatever its own.
PhysicsRun_FixedSpeed(pos, vel) ==
    [e \in DOMAIN pos |->
        LET step == StepVector(vel[e].direction, PLAYER_MOVEMENT_SPEED)
        IN  Point(pos[e].x + step.x, pos[e].y + step.y)]

\* Physics: the position of every entity after one step.
PhysicsRun(pos, vel) ==
    [e \in DOMAIN pos |->
        IF vel[e].speed > 0
        THEN LET step == StepVector(vel[e].direction, vel[e].speed)
             IN  Point(pos[e].x + step.x, pos[e].y + step.y)
        ELSE pos[e]]

FramesOf(anim, direction) ==
    CASE direction = "Up" -> anim.up_frames
      [] direction = "Down" -> anim.down_frames
      [] direction = "Left" -> anim.left_frames
      [] direction = "Right" -> anim.right_frames

Range(s) == {s[k] : k \in DOMAIN s}

\* Variant: the counter runs on when the entity turns while it moves.
AnimatorFrame_KeepsCounter(v, spr, anim) ==
    LET frames == FramesOf(anim, v.direction)
    IN  IF v.speed = 0 THEN 0
        ELSE (anim.current_frame + 1) % (Len(frames) * FRAME_DIVISOR)

\* Animator: the animation counter of one entity after one frame.
AnimatorFrame(v, spr, anim) ==
    LET frames == FramesOf(anim, v.direction)
    IN  IF v.speed = 0 THEN 0
        ELSE IF spr \notin Range(frames) THEN 0
        ELSE (anim.current_frame + 1) % (Len(frames) * FRAME_DIVISOR)

AnimatorAnimation(vel, spr, anim) ==
    [e \in DOMAIN anim |->
        [anim[e] EXCEPT !.current_frame = AnimatorFrame(vel[e], spr[e], anim[e])]]

\* Variant: an entity that stops keeps the walk frame it was showing.
AnimatorSprite_IdleKeepsFrame(vel, spr, anim) ==
    [e \in DOMAIN spr |->
        LET frames == FramesOf(anim[e], vel[e].direction)
            counter == AnimatorFrame(vel[e], spr[e], anim[e])
        IN  IF vel[e].speed = 0 /\ spr[e] \in Range(frames) THEN spr[e]
            ELSE frames[((counter \div FRAME_DIVISOR) % Len(frames)) + 1]]

\* Animator: the displayed sprite of every entity after one frame.
AnimatorSprite(vel, spr, anim) ==
    [e \in DOMAIN spr |->
        LET frames == FramesOf(anim[e], vel[e].direction)
            counter == AnimatorFrame(vel[e], spr[e], anim[e])
        IN  frames[((counter \div FRAME_DIVISOR) % Len(frames)) + 1]]

\* No walk in progress: the entity stands, facing direction.
NoWalk(direction) == [direction |-> direction, shown |-> <<>>]

\* The index of a sprite in a sequence of frames, counted from 0; -1 if absent.
IndexOf(spr, frames) ==
    IF spr \in Range(frames)
    THEN (CHOOSE k \in DOMAIN frames : frames[k] = spr) - 1
    ELSE -1

\* The walk in progress of every entity once the Animator has shown spr: an idle
\* entity has none, a change of direction starts a new one.
WalkAfterAnimator(vel, spr, anim, wk) ==
    [e \in DOMAIN wk |->
        LET direction == vel[e].direction
            index == IndexOf(spr[e], FramesOf(anim[e], direction))
        IN  IF vel[e].speed = 0 THEN NoWalk(direction)
            ELSE IF wk[e].shown # <<>> /\ wk[e].direction = direction
            THEN [wk[e] EXCEPT !.shown = Append(@, index)]
            ELSE [direction |-> direction, shown |-> <<index>>]]

(***************************************************************************)
(* Initial state: main has built the world and is about to enter the loop. *)
(***************************************************************************)
Snapshot(pos, vel, spr, anim) ==
    [position |-> pos, velocity |-> vel, sprite |-> spr,
     current_frame |-> [e \in DOMAIN anim |-> anim[e].current_frame]]

NoMove == [kind |-> "None"]

NoCall == [kind |-> "None"]

ZeroCount ==
    [iter |-> 0, write |-> 0, system |-> 0, maintain |-> 0, render |-> 0, sleep |-> 0]

InitWorld ==
    /\ tags = [e \in Entities |-> Created[e].tags]
    /\ position = [e \in Entities |-> Created[e].position]
    /\ velocity = [e \in Entities |-> Created[e].velocity]
    /\ sprite = [e \in Entities |-> Created[e].sprite]
    /\ animation = [e \in Entities |-> Created[e].animation]
    /\ resource = NoCommand
    /\ i = 0
    /\ pc = "top"
    /\ movement_command = NoCommand
    /\ done = {}
    /\ polled = <<>>
    /\ relevant = NoEvent
    /\ count = ZeroCount
    /\ prev = Snapshot(position, velocity, sprite, animation)
    /\ moved = NoMove
    /\ aiUsed = 0
    /\ walk = [e \in Entities |-> NoWalk(Created[e].velocity.direction)]
    /\ part = {}

Init ==
    /\ InitWorld
    /\ pump = <<>>
    /\ twin = <<>>
    /\ call = NoCall

world == <<tags, position, velocity, sprite, animation>>

history == <<prev, moved, aiUsed, twin, walk, part, call>>

(***************************************************************************)
(* The loop body.                                                          *)
(***************************************************************************)
\* Variant: the counter is reduced modulo 256.
NextCounter_Mod256(n) == (n + 1) % 256

\* Line 181: the frame counter after one more frame.
NextCounter(n) == (n + 1) % 255

\* Variant: movement_command is declared outside the loop and never cleared.
BeginIteration_KeepsCommand ==
    /\ pc = "top"
    /\ count.iter < MaxFrames
    /\ pc' = "poll"
    /\ polled' = <<>>
    /\ relevant' = NoEvent
    /\ count' = [count EXCEPT !.iter = @ + 1]
    /\ UNCHANGED <<i, movement_command, resource, done, world, pump, history>>

\* Line 148: a new iteration starts with no command.
BeginIteration ==
    /\ pc = "top"
    /\ count.iter < MaxFrames
    /\ pc' = "poll"
    /\ movement_command' = NoCommand
    /\ polled' = <<>>
    /\ relevant' = NoEvent
    /\ count' = [count EXCEPT !.iter = @ + 1]
    /\ UNCHANGED <<i, resource, done, world, pump, history>>

\* Variant: the quit arm writes the command before it leaves the loop.
Handle_QuitAfterWrite(event) ==
    /\ pc = "poll"
    /\ IF IsQuit(event)
       THEN /\ pc' = "done"
            /\ resource' = movement_command
            /\ count' = [count EXCEPT !.write = @ + 1]
            /\ UNCHANGED <<movement_command, relevant>>
       ELSE /\ pc' = "poll"
            /\ movement_command' = HandleEvent(event, movement_command)
            /\ relevant' = IF SetsCommand(event) THEN event ELSE relevant
            /\ UNCHANGED <<resource, count>>
    /\ UNCHANGED <<i, done, world, history>>

\* Variant: the quit arm hands the command polled so far to Keyboard.
Handle_QuitRunsKeyboard(event) ==
    /\ pc = "poll"
    /\ IF IsQuit(event)
       THEN /\ pc' = "done"
            /\ velocity' = KeyboardRun(tags, velocity, movement_command)
            /\ UNCHANGED <<movement_command, relevant>>
       ELSE /\ pc' = "poll"
            /\ movement_command' = HandleEvent(event, movement_command)
            /\ relevant' = IF SetsCommand(event) THEN event ELSE relevant
            /\ UNCHANGED velocity
    /\ UNCHANGED <<i, resource, done, tags, position, sprite, animation, count, history>>

\* Lines 151-175: the body of the for loop on one event.
Handle(event) ==
    /\ pc = "poll"
    /\ IF IsQuit(event)
       THEN /\ pc' = "done"
            /\ UNCHANGED <<movement_command, relevant>>
       ELSE /\ pc' = "poll"
            /\ movement_command' = HandleEvent(event, movement_command)
            /\ relevant' = IF SetsCommand(event) THEN event ELSE relevant
    /\ UNCHANGED <<i, resource, done, world, count, history>>

\* The event pump delivers whatever the user did: any event, any number of them.
PollEvent ==
    /\ pump = <<>>
    /\ polled = <<>>
    /\ \E event \in Events : Handle(event)
    /\ UNCHANGED <<pump, polled>>

\* Lines 178 and 181: the pump is drained; the command becomes the resource.
WriteResource ==
    /\ pc = "poll"
    /\ pump = <<>>
    /\ resource' = movement_command
    /\ i' = NextCounter(i)
    /\ pc' = "dispatch"
    /\ done' = {}
    /\ relevant' = NoEvent
    /\ count' = [count EXCEPT !.write = @ + 1]
    /\ UNCHANGED <<movement_command, world, pump, polled, history>>

Runnable(system) ==
    /\ pc = "dispatch"
    /\ system \notin done
    /\ Dependencies(system) \subseteq done

Ran(system) ==
    /\ done' = done \cup {system}
    /\ count' = [count EXCEPT !.system = @ + 1]
    /\ UNCHANGED <<pc, i, movement_command, resource, tags, pump, polled,
                   relevant, prev, twin, part, call>>

MovedAfterKeyboard ==
    LET player == CHOOSE e \in Entities : "KeyboardControlled" \in tags[e]
    IN  CASE resource.kind = "Move" ->
                [kind |-> "Move", dir |-> resource.dir, entity |-> player,
                 from |-> position[player], steps |-> 0]
          [] resource.kind = "Stop" -> NoMove
          [] OTHER -> moved

RunKeyboard ==
    /\ Runnable("Keyboard")
    /\ velocity' = KeyboardRun(tags, velocity, resource)
    /\ moved' = MovedAfterKeyboard
    /\ Ran("Keyboard")
    /\ UNCHANGED <<position, sprite, animation, aiUsed, walk>>

\* The decisions of one AI run: enemies it assigns a velocity, all others kept.
Decisions(tg, budget) ==
    LET enemies == {e \in DOMAIN tg : "Enemy" \in tg[e]}
        chosen == {T \in SUBSET enemies : Cardinality(T) <= budget}
    IN  UNION {{[e \in DOMAIN tg |-> IF e \in T THEN d[e] ELSE Keep] :
                    d \in [T -> AIDecisions \ {Keep}]} : T \in chosen}

Changes(decision) == Cardinality({e \in DOMAIN decision : decision[e] # Keep})

RunAI ==
    /\ Runnable("AI")
    /\ \E decision \in Decisions(tags, MaxAIChanges - aiUsed) :
          /\ velocity' = AIRun(tags, velocity, decision)
          /\ aiUsed' = aiUsed + Changes(decision)
    /\ Ran("AI")
    /\ UNCHANGED <<position, sprite, animation, moved, walk>>

RunPhysics ==
    /\ Runnable("Physics")
    /\ position' = PhysicsRun(position, velocity)
    /\ moved' = IF moved.kind = "Move" THEN [moved EXCEPT !.steps = @ + 1] ELSE moved
    /\ Ran("Physics")
    /\ UNCHANGED <<velocity, sprite, animation, aiUsed, walk>>

RunAnimator ==
    /\ Runnable("Animator")
    /\ sprite' = AnimatorSprite(velocity, sprite, animation)
    /\ animation' = AnimatorAnimation(velocity, sprite, animation)
    /\ walk' = WalkAfterAnimator(velocity, sprite', animation, walk)
    /\ Ran("Animator")
    /\ UNCHANGED <<position, velocity, moved, aiUsed>>

\* Variant: the commit is fallible and its error leaves main.
Maintain_MayFail ==
    /\ pc = "dispatch"
    /\ done = Systems
    /\ \/ pc' = "render"
       \/ pc' = "failed"
    /\ count' = [count EXCEPT !.maintain = @ + 1]
    /\ UNCHANGED <<i, movement_command, resource, done, world, pump, polled,
                   relevant, history>>

\* Variant: the commit deletes the entities that stand still.
Maintain_DeletesIdle ==
    LET kept == {e \in DOMAIN velocity : velocity[e].speed > 0}
    IN  /\ pc = "dispatch"
        /\ done = Systems
        /\ pc' = "render"
        /\ count' = [count EXCEPT !.maintain = @ + 1]
        /\ tags' = [e \in kept |-> tags[e]]
        /\ position' = [e \in kept |-> position[e]]
        /\ velocity' = [e \in kept |-> velocity[e]]
        /\ sprite' = [e \in kept |-> sprite[e]]
        /\ animation' = [e \in kept |-> animation[e]]
        /\ UNCHANGED <<i, movement_command, resource, done, pump, polled,
                       relevant, history>>

\* Variant: the commit and the render do not wait for Physics and Animator.
Maintain_Early ==
    /\ pc = "dispatch"
    /\ {"Keyboard", "AI"} \subseteq done
    /\ pc' = "render"
    /\ count' = [count EXCEPT !.maintain = @ + 1]
    /\ UNCHANGED <<i, movement_command, resource, done, world, pump, polled,
                   relevant, history>>

\* Line 183: dispatch has returned; no system queued a structural change.
Maintain ==
    /\ pc = "dispatch"
    /\ done = Systems
    /\ pc' = "render"
    /\ count' = [count EXCEPT !.maintain = @ + 1]
    /\ UNCHANGED <<i, movement_command, resource, done, world, pump, polled,
                   relevant, history>>

\* Line 186: the renderer draws, or reports an error that main returns.
Render ==
    /\ pc = "render"
    /\ \/ pc' = "sleep"
       \/ pc' = "failed"
    /\ count' = [count EXCEPT !.render = @ + 1]
    /\ UNCHANGED <<i, movement_command, resource, done, world, pump, polled,
                   relevant, history>>

\* Line 189: the frame is over.
Sleep ==
    /\ pc = "sleep"
    /\ pc' = "top"
    /\ count' = [count EXCEPT !.sleep = @ + 1]
    /\ prev' = Snapshot(position, velocity, sprite, animation)
    /\ UNCHANGED <<i, movement_command, resource, done, world, pump, polled,
                   relevant, moved, aiUsed, twin, walk, part, call>>

Next ==
    \/ BeginIteration
    \/ PollEvent
    \/ WriteResource
    \/ RunKeyboard
    \/ RunAI
    \/ RunPhysics
    \/ RunAnimator
    \/ Maintain
    \/ Render
    \/ Sleep

Spec == Init /\ [][Next]_vars

(***************************************************************************)
(* One iteration on a batch the event pump already holds: the for loop of  *)
(* line 150 takes the events in order until the pump is empty.             *)
(***************************************************************************)
Batches == UNION {[1..n -> Events] : n \in 0..MaxEvents}

InitInput ==
    /\ InitWorld
    /\ pump \in Batches
    /\ twin = <<>>
    /\ call = NoCall

PollPump ==
    /\ pump # <<>>
    /\ Handle(Head(pump))
    /\ pump' = Tail(pump)
    /\ polled' = Append(polled, Head(pump))

NextInput ==
    \/ BeginIteration
    \/ PollPump
    \/ WriteResource

SpecInput == InitInput /\ [][NextInput]_vars

(***************************************************************************)
(* Two runs of the update side by side: the same entities, the same AI     *)
(* decisions and the same schedule, but different Pending Command values.  *)
(* The first run receives any command in each frame; the second run, kept  *)
(* in twin, is the reference run that never receives one.  Two arbitrary   *)
(* runs agree on a component whenever each agrees with the reference run.  *)
(***************************************************************************)
InitPair ==
    /\ InitWorld
    /\ pump = <<>>
    /\ twin = [resource |-> resource, position |-> position, velocity |-> velocity,
               sprite |-> sprite, animation |-> animation]
    /\ call = NoCall

PairRan(system) ==
    /\ done' = done \cup {system}
    /\ count' = [count EXCEPT !.system = @ + 1]
    /\ UNCHANGED <<pc, i, movement_command, resource, tags, pump, polled,
                   relevant, prev, moved, walk, part, call>>

PairWrite ==
    /\ pc = "top"
    /\ count.iter < MaxFrames
    /\ \E command \in Commands : resource' = command
    /\ twin' = [twin EXCEPT !.resource = NoCommand]
    /\ pc' = "dispatch"
    /\ done' = {}
    /\ i' = NextCounter(i)
    /\ count' = [count EXCEPT !.iter = @ + 1, !.write = @ + 1]
    /\ UNCHANGED <<movement_command, world, pump, polled, relevant, prev,
                   moved, aiUsed, walk, part, call>>

PairKeyboard ==
    /\ Runnable("Keyboard")
    /\ velocity' = KeyboardRun(tags, velocity, resource)
    /\ twin' = [twin EXCEPT !.velocity = KeyboardRun(tags, twin.velocity, twin.resource)]
    /\ PairRan("Keyboard")
    /\ UNCHANGED <<position, sprite, animation, aiUsed>>

PairAI ==
    /\ Runnable("AI")
    /\ \E decision \in Decisions(tags, MaxAIChanges - aiUsed) :
          /\ velocity' = AIRun(tags, velocity, decision)
          /\ twin' = [twin EXCEPT !.velocity = AIRun(tags, twin.velocity, decision)]
          /\ aiUsed' = aiUsed + Changes(decision)
    /\ PairRan("AI")
    /\ UNCHANGED <<position, sprite, animation>>

PairPhysics ==
    /\ Runnable("Physics")
    /\ position' = PhysicsRun(position, velocity)
    /\ twin' = [twin EXCEPT !.position = PhysicsRun(twin.position, twin.velocity)]
    /\ PairRan("Physics")
    /\ UNCHANGED <<velocity, sprite, animation, aiUsed>>

PairAnimator ==
    /\ Runnable("Animator")
    /\ sprite' = AnimatorSprite(velocity, sprite, animation)
    /\ animation' = AnimatorAnimation(velocity, sprite, animation)
    /\ twin' = [twin EXCEPT
                  !.sprite = AnimatorSprite(twin.velocity, twin.sprite, twin.animation),
                  !.animation = AnimatorAnimation(twin.velocity, twin.sprite, twin.animation)]
    /\ PairRan("Animator")
    /\ UNCHANGED <<position, velocity, aiUsed>>

PairEnd ==
    /\ pc = "dispatch"
    /\ done = Systems
    /\ pc' = "top"
    /\ UNCHANGED <<i, movement_command, resource, done, world, pump, polled,
                   relevant, count, history>>

NextPair ==
    \/ PairWrite
    \/ PairKeyboard
    \/ PairAI
    \/ PairPhysics
    \/ PairAnimator
    \/ PairEnd

SpecPair == InitPair /\ [][NextPair]_vars

(***************************************************************************)
(* A longer run of the update in which only the player is driven: the AI   *)
(* leaves every enemy as it is, every frame delivers any command, and the  *)
(* run is long enough for a walk to pass a whole cycle.                    *)
(***************************************************************************)
InitWalk ==
    /\ InitWorld
    /\ pump = <<>>
    /\ twin = <<>>
    /\ call = NoCall

WalkRan(system) ==
    /\ done' = done \cup {system}
    /\ count' = [count EXCEPT !.system = @ + 1]
    /\ UNCHANGED <<pc, i, movement_command, resource, tags, pump, polled,
                   relevant, prev, moved, aiUsed, twin, part, call>>

WalkWrite ==
    /\ pc = "top"
    /\ count.iter < MaxWalkFrames
    /\ \E command \in Commands : resource' = command
    /\ pc' = "dispatch"
    /\ done' = {}
    /\ i' = NextCounter(i)
    /\ count' = [count EXCEPT !.iter = @ + 1, !.write = @ + 1]
    /\ UNCHANGED <<movement_command, world, pump, polled, relevant, history>>

WalkKeyboard ==
    /\ Runnable("Keyboard")
    /\ velocity' = KeyboardRun(tags, velocity, resource)
    /\ WalkRan("Keyboard")
    /\ UNCHANGED <<position, sprite, animation, walk>>

WalkAI ==
    /\ Runnable("AI")
    /\ velocity' = AIRun(tags, velocity, [e \in Entities |-> Keep])
    /\ WalkRan("AI")
    /\ UNCHANGED <<position, sprite, animation, walk>>

WalkPhysics ==
    /\ Runnable("Physics")
    /\ position' = PhysicsRun(position, velocity)
    /\ WalkRan("Physics")
    /\ UNCHANGED <<velocity, sprite, animation, walk>>

WalkAnimator ==
    /\ Runnable("Animator")
    /\ sprite' = AnimatorSprite(velocity, sprite, animation)
    /\ animation' = AnimatorAnimation(velocity, sprite, animation)
    /\ walk' = WalkAfterAnimator(velocity, sprite', animation, walk)
    /\ WalkRan("Animator")
    /\ UNCHANGED <<position, velocity>>

WalkEnd ==
    /\ pc = "dispatch"
    /\ done = Systems
    /\ pc' = "top"
    /\ prev' = Snapshot(position, velocity, sprite, animation)
    /\ UNCHANGED <<i, movement_command, resource, done, world, pump, polled,
                   relevant, count, moved, aiUsed, twin, walk, part, call>>

NextWalk ==
    \/ WalkWrite
    \/ WalkKeyboard
    \/ WalkAI
    \/ WalkPhysics
    \/ WalkAnimator
    \/ WalkEnd

SpecWalk == InitWalk /\ [][NextWalk]_vars

(***************************************************************************)
(* The update with Physics and Animator on worker threads: the dispatcher  *)
(* starts each as soon as its dependencies have finished, and each system  *)
(* joins its storages and updates one entity after the other in the order  *)
(* of the entity ids, so the per-entity updates of the two systems         *)
(* interleave in any order.                                                *)
(***************************************************************************)
InitSplit ==
    /\ InitWorld
    /\ pump = <<>>
    /\ twin = <<>>
    /\ call = NoCall

SplitRan(system) ==
    /\ done' = done \cup {system}
    /\ count' = [count EXCEPT !.system = @ + 1]
    /\ UNCHANGED <<pc, i, movement_command, resource, tags, pump, polled,
                   relevant, prev, moved, twin, walk, part, call>>

SplitWrite ==
    /\ pc = "top"
    /\ count.iter < MaxSplitFrames
    /\ \E command \in Commands : resource' = command
    /\ pc' = "dispatch"
    /\ done' = {}
    /\ part' = {}
    /\ i' = NextCounter(i)
    /\ count' = [count EXCEPT !.iter = @ + 1, !.write = @ + 1]
    /\ UNCHANGED <<movement_command, world, pump, polled, relevant, prev,
                   moved, aiUsed, twin, walk, call>>

SplitKeyboard ==
    /\ Runnable("Keyboard")
    /\ velocity' = KeyboardRun(tags, velocity, resource)
    /\ SplitRan("Keyboard")
    /\ UNCHANGED <<position, sprite, animation, aiUsed>>

SplitAI ==
    /\ Runnable("AI")
    /\ \E decision \in Decisions(tags, MaxAIChanges - aiUsed) :
          /\ velocity' = AIRun(tags, velocity, decision)
          /\ aiUsed' = aiUsed + Changes(decision)
    /\ SplitRan("AI")
    /\ UNCHANGED <<position, sprite, animation>>

\* Whether entity e is the next one the join of the system yields.
SplitNext(system, e) ==
    /\ <<system, e>> \notin part
    /\ \A other \in Entities : other < e => <<system, other>> \in part

\* One system has updated entity e; the system finishes with its last entity.
SplitUpdated(system, e) ==
    LET updated == part \cup {<<system, e>>}
        finished == \A other \in Entities : <<system, other>> \in updated
    IN  /\ part' = updated
        /\ done' = IF finished THEN done \cup {system} ELSE done
        /\ count' = IF finished THEN [count EXCEPT !.system = @ + 1] ELSE count
        /\ UNCHANGED <<pc, i, movement_command, resource, tags, velocity, pump,
                       polled, relevant, prev, moved, aiUsed, twin, walk, call>>

PhysicsEntity(e) ==
    /\ Runnable("Physics")
    /\ SplitNext("Physics", e)
    /\ position' = [position EXCEPT ![e] = PhysicsRun(position, velocity)[e]]
    /\ SplitUpdated("Physics", e)
    /\ UNCHANGED <<sprite, animation>>

AnimatorEntity(e) ==
    /\ Runnable("Animator")
    /\ SplitNext("Animator", e)
    /\ sprite' = [sprite EXCEPT ![e] = AnimatorSprite(velocity, sprite, animation)[e]]
    /\ animation' =
          [animation EXCEPT ![e] = AnimatorAnimation(velocity, sprite, animation)[e]]
    /\ SplitUpdated("Animator", e)
    /\ UNCHANGED position

SplitEnd ==
    /\ pc = "dispatch"
    /\ done = Systems
    /\ pc' = "top"
    /\ prev' = Snapshot(position, velocity, sprite, animation)
    /\ UNCHANGED <<i, movement_command, resource, done, world, pump, polled,
                   relevant, count, moved, aiUsed, twin, walk, part, call>>

NextSplit ==
    \/ SplitWrite
    \/ SplitKeyboard
    \/ SplitAI
    \/ \E e \in Entities : PhysicsEntity(e)
    \/ \E e \in Entities : AnimatorEntity(e)
    \/ SplitEnd

SpecSplit == InitSplit /\ [][NextSplit]_vars

(***************************************************************************)
(* One call of character_animation_frames on any sheet, any top left frame *)
(* of the size of a sprite and any direction.                              *)
(***************************************************************************)
FrameSheets == {0, 1}

FrameRects == {Rect(x, y, w, h) : x \in {0, 5}, y \in {0, 7}, w \in {26, 32}, h \in {36, 48}}

InitFrames ==
    /\ InitWorld
    /\ pump = <<>>
    /\ twin = <<>>
    /\ \E spritesheet \in FrameSheets, top_left_frame \in FrameRects,
          direction \in Directions :
          call = [kind |-> "Call", spritesheet |-> spritesheet,
                  top_left_frame |-> top_left_frame, direction |-> direction]

CallFrames ==
    /\ call.kind = "Call"
    /\ call' = [kind |-> "Return", spritesheet |-> call.spritesheet,
                top_left_frame |-> call.top_left_frame, direction |-> call.direction,
                frames |-> character_animation_frames(call.spritesheet,
                              call.top_left_frame, call.direction)]
    /\ UNCHANGED <<pc, i, movement_command, resource, done, world, pump, polled,
                   relevant, count, prev, moved, aiUsed, twin, walk, part>>

NextFrames == CallFrames

SpecFrames == InitFrames /\ [][NextFrames]_vars

(***************************************************************************)
(* A long run of quiet frames: the pump holds no event, the AI leaves the  *)
(* enemies as they are, the renderer succeeds.  A step is one iteration of *)
(* the loop from line 148 to line 189.                                     *)
(***************************************************************************)
InitCounter ==
    /\ InitWorld
    /\ pump = <<>>
    /\ twin = <<>>
    /\ call = NoCall

QuietFrame ==
    LET command == NoCommand
        vel == AIRun(tags, KeyboardRun(tags, velocity, command),
                     [e \in Entities |-> Keep])
        pos == PhysicsRun(position, vel)
        spr == AnimatorSprite(vel, sprite, animation)
        anim == AnimatorAnimation(vel, sprite, animation)
    IN  /\ pc = "top"
        /\ count.iter < MaxCounterFrames
        /\ movement_command' = command
        /\ polled' = <<>>
        /\ relevant' = NoEvent
        /\ resource' = command
        /\ i' = NextCounter(i)
        /\ velocity' = vel
        /\ position' = pos
        /\ sprite' = spr
        /\ animation' = anim
        /\ walk' = WalkAfterAnimator(vel, spr, animation, walk)
        /\ done' = Systems
        /\ count' = [iter |-> count.iter + 1, write |-> count.write + 1,
                     system |-> count.system + 4, maintain |-> count.maintain + 1,
                     render |-> count.render + 1, sleep |-> count.sleep + 1]
        /\ prev' = Snapshot(pos, vel, spr, anim)
        /\ pc' = "top"
        /\ UNCHANGED <<tags, pump, moved, aiUsed, twin, part, call>>

NextCounterRun == QuietFrame

SpecCounter == InitCounter /\ [][NextCounterRun]_vars

(***************************************************************************)
(* Properties.                                                             *)
(***************************************************************************)
Readers == {"Physics", "Animator"}

Writers == {"Keyboard", "AI"}

\* C1: in every frame Keyboard and AI have both finished before Physics or
\* Animator starts, and Velocity is written only while neither reader has
\* run, so the readers of frame n see the Velocity written in frame n.
C1_WritersBeforeReaders ==
    /\ [](done \cap Readers # {} => Writers \subseteq done)
    /\ [][velocity' # velocity => pc = "dispatch" /\ done \cap Readers = {}]_vars

C1_Witness ==
    /\ pc = "dispatch"
    /\ done = Writers \cup {"Physics"}
    /\ \E e \in Entities : "KeyboardControlled" \in tags[e] /\ velocity[e].speed > 0
    /\ \E e \in Entities : "Enemy" \in tags[e] /\ velocity[e].speed > 0

\* The command the claims expect from the last relevant event of a frame.
Delivered(event) ==
    CASE event.type = "KeyDown" -> [kind |-> "Move", dir |-> event.keycode]
      [] event.type = "KeyUp" -> [kind |-> "Stop"]
      [] OTHER -> [kind |-> "None"]

\* C2: the Pending Command slot is written in every frame before the systems
\* run; the value written follows from the events polled in that frame alone
\* and is none when no relevant event was polled, whatever it held before;
\* nothing else writes the slot.
C2_SlotOverwritten ==
    /\ [](pc = "dispatch" => count.write = count.iter)
    /\ [][count'.write # count.write => resource' = Delivered(relevant)]_vars
    /\ [][resource' # resource => count'.write # count.write]_vars

C2_Witness ==
    /\ pc = "dispatch"
    /\ count.iter = 2
    /\ "Keyboard" \notin done
    /\ resource = NoCommand
    /\ \E e \in Entities : "KeyboardControlled" \in tags[e] /\ velocity[e].speed > 0

\* C3: a non-repeat key-down of arrow d makes the command Move(d), a
\* non-repeat key-up of an arrow makes it Stop, a repeat event or any other
\* key leaves it as it was; the command written for the update is one of
\* none, Stop, Move(Up), Move(Down), Move(Left), Move(Right).
C3_InputTranslation ==
    /\ [](resource \in Commands)
    /\ [][count'.write # count.write => resource' = movement_command]_vars
    /\ [][Len(polled') = Len(polled) + 1 =>
            LET event == polled'[Len(polled')]
            IN  /\ \A d \in Directions :
                      event = [type |-> "KeyDown", keycode |-> d, repeat |-> FALSE]
                          => movement_command' = [kind |-> "Move", dir |-> d]
                /\ \A d \in Directions :
                      event = [type |-> "KeyUp", keycode |-> d, repeat |-> FALSE]
                          => movement_command' = [kind |-> "Stop"]
                /\ (event.repeat \/ event.keycode \notin Directions)
                          => movement_command' = movement_command]_vars

C3_Witness ==
    /\ pc = "dispatch"
    /\ polled = <<[type |-> "KeyDown", keycode |-> "Left", repeat |-> FALSE],
                  [type |-> "KeyDown", keycode |-> "Right", repeat |-> TRUE]>>
    /\ resource = [kind |-> "Move", dir |-> "Left"]

\* C4 as stated: the iteration in which the quit signal is polled still
\* completes its remaining steps (write, dispatch, commit, render).
C4_QuitIterationCompletes ==
    pc = "done" =>
        /\ count.write = count.iter
        /\ count.system = 4 * count.iter
        /\ count.maintain = count.iter
        /\ count.render = count.iter

\* C4 as amended: on a quit event or an Escape key-down the loop is left at
\* once; the iteration that polled it runs none of its remaining steps
\* (write, dispatch, commit, render, sleep) and no later iteration starts.
C4_QuitLeavesAtOnce ==
    /\ [](pc = "done" =>
            /\ count.iter >= 1
            /\ count.write = count.iter - 1
            /\ count.system = 4 * (count.iter - 1)
            /\ count.maintain = count.iter - 1
            /\ count.render = count.iter - 1
            /\ count.sleep = count.iter - 1)
    /\ [][pc = "done" => pc' = "done" /\ count' = count]_vars

C4_Witness ==
    /\ pc = "done"
    /\ count.iter = 2
    /\ count.render = 1

\* C5: in the iteration that polls the quit signal the slot is not written
\* and no system runs, whatever was polled before it; after termination
\* every entity's Position, Velocity, Sprite and animation state are those
\* of the end of the previous frame.
C5_QuitNotDelivered ==
    pc = "done" =>
        /\ count.write = count.iter - 1
        /\ count.system = 4 * (count.iter - 1)
        /\ Snapshot(position, velocity, sprite, animation) = prev

C5_Witness ==
    /\ pc = "done"
    /\ count.iter = 2
    /\ relevant.type = "KeyDown"
    /\ movement_command.kind = "Move"
    /\ resource = Stop
    /\ \E e \in Entities : position[e] # Created[e].position

\* C6: before the first frame exactly 4 entities exist, one KeyboardControlled
\* at (0,0) and three Enemy at (-150,-150), (150,-190), (-150,170); each has
\* speed 0, direction Right, current_frame 0 and shows frame 0 of its own
\* Right sequence; the Pending Command slot is none.
C6_Startup ==
    count.iter = 0 =>
        LET players == {e \in DOMAIN tags : tags[e] = {"KeyboardControlled"}}
            enemies == {e \in DOMAIN tags : tags[e] = {"Enemy"}}
        IN  /\ Cardinality(DOMAIN tags) = 4
            /\ DOMAIN position = DOMAIN tags
            /\ DOMAIN velocity = DOMAIN tags
            /\ DOMAIN sprite = DOMAIN tags
            /\ DOMAIN animation = DOMAIN tags
            /\ Cardinality(players) = 1
            /\ Cardinality(enemies) = 3
            /\ \A e \in players : position[e] = [x |-> 0, y |-> 0]
            /\ \A at \in {[x |-> -150, y |-> -150], [x |-> 150, y |-> -190],
                          [x |-> -150, y |-> 170]} :
                  \E e \in enemies : position[e] = at
            /\ \A e \in DOMAIN tags :
                  /\ velocity[e] = [speed |-> 0, direction |-> "Right"]
                  /\ animation[e].current_frame = 0
                  /\ sprite[e] = animation[e].right_frames[1]
            /\ resource = [kind |-> "None"]

C6_Witness ==
    /\ count.iter = 0
    /\ pc = "top"
    /\ Cardinality(DOMAIN tags) = 4
    /\ \E e \in DOMAIN tags : position[e] = [x |-> 150, y |-> -190]

\* C7: Enemy entities do not respond to the Pending Command: in a run that
\* receives any commands and the reference run that receives none, with the
\* same AI decisions, every Enemy has the same Velocity, Position, Sprite and
\* animation state at every point of every frame.
C7_EnemiesIgnoreCommand ==
    \A e \in DOMAIN tags :
        "Enemy" \in tags[e] =>
            /\ velocity[e] = twin.velocity[e]
            /\ position[e] = twin.position[e]
            /\ sprite[e] = twin.sprite[e]
            /\ animation[e] = twin.animation[e]

C7_Witness ==
    /\ count.iter = 2
    /\ done = Systems
    /\ resource.kind = "Move"
    /\ \E e \in DOMAIN tags :
          /\ "KeyboardControlled" \in tags[e]
          /\ position[e] # twin.position[e]
    /\ \E e \in DOMAIN tags :
          /\ "Enemy" \in tags[e]
          /\ position[e] # Created[e].position

\* C8: after Move(d) is applied to the keyboard-controlled entity and N
\* physics steps have run with no other command, its Position is the one
\* before the command plus N times the step of d (Up = -y, Down = +y,
\* Left = -x, Right = +x, by the fixed speed); the other axis is unchanged.
C8_MoveDisplacement ==
    moved.kind = "Move" =>
        LET at == position[moved.entity]
            from == moved.from
            far == moved.steps * PLAYER_MOVEMENT_SPEED
        IN  CASE moved.dir = "Up" -> at.x = from.x /\ at.y = from.y - far
              [] moved.dir = "Down" -> at.x = from.x /\ at.y = from.y + far
              [] moved.dir = "Left" -> at.y = from.y /\ at.x = from.x - far
              [] moved.dir = "Right" -> at.y = from.y /\ at.x = from.x + far

C8_Witness ==
    /\ moved.kind = "Move"
    /\ moved.dir = "Up"
    /\ moved.steps = 2
    /\ position[moved.entity] = [x |-> moved.from.x, y |-> moved.from.y - 40]
    /\ resource = NoCommand

\* C9: an entity whose speed is 0 at the end of two consecutive frames has
\* the same Position at the end of both; only Physics changes Position.
C9_IdleKeepsPosition ==
    /\ [](pc \in {"render", "sleep"} =>
            \A e \in DOMAIN position :
                prev.velocity[e].speed = 0 /\ velocity[e].speed = 0
                    => position[e] = prev.position[e])
    /\ [][position' # position => "Physics" \notin done /\ "Physics" \in done']_vars

C9_Witness ==
    /\ pc = "sleep"
    /\ count.iter = 2
    /\ \E e \in DOMAIN position :
          /\ prev.velocity[e].speed = 0
          /\ velocity[e].speed = 0
          /\ "Enemy" \in tags[e]
    /\ \E e \in DOMAIN position :
          /\ prev.velocity[e].speed > 0
          /\ position[e] # prev.position[e]

\* C10: Keyboard, per tagged entity: Move(d) sets speed to the fixed non-zero
\* constant and direction to d; Stop sets speed to 0 and keeps the direction;
\* no command leaves Velocity as it was.  Speed is never negative.
C10_KeyboardVelocity ==
    /\ PLAYER_MOVEMENT_SPEED # 0
    /\ [](\A e \in DOMAIN velocity : velocity[e].speed >= 0)
    /\ []["Keyboard" \notin done /\ "Keyboard" \in done' =>
            \A e \in DOMAIN tags :
                "KeyboardControlled" \in tags[e] =>
                    CASE resource.kind = "Move" ->
                            /\ velocity'[e].speed = PLAYER_MOVEMENT_SPEED
                            /\ velocity'[e].direction = resource.dir
                      [] resource.kind = "Stop" ->
                            /\ velocity'[e].speed = 0
                            /\ velocity'[e].direction = velocity[e].direction
                      [] OTHER -> velocity'[e] = velocity[e]]_vars

C10_Witness ==
    /\ pc = "dispatch"
    /\ "Keyboard" \in done
    /\ resource = NoCommand
    /\ \E e \in DOMAIN tags :
          /\ "KeyboardControlled" \in tags[e]
          /\ velocity[e].speed = PLAYER_MOVEMENT_SPEED
          /\ velocity[e].direction = "Down"

Last(s) == s[Len(s)]

Shown(e) == walk[e].shown

\* The frames of the direction entity e faces now.
Facing(e) == FramesOf(animation[e], velocity[e].direction)

\* C11: while an entity moves, the index of the frame it displays runs through
\* 0, 1, 2, 0, 1, 2, ... (each index is held FRAME_DIVISOR frames, so the index
\* returns after 3 advances), and when it turns while moving the frame displayed
\* at once is index 0 of the new direction.
C11_WalkCycle ==
    \A e \in Entities :
        /\ Shown(e) # <<>> => Shown(e)[1] = 0
        /\ \A k \in DOMAIN Shown(e) :
              /\ Shown(e)[k] \in 0..2
              /\ k + 1 \in DOMAIN Shown(e) =>
                    Shown(e)[k + 1] \in {Shown(e)[k], (Shown(e)[k] + 1) % 3}
              /\ k + FRAME_DIVISOR \in DOMAIN Shown(e) =>
                    Shown(e)[k + FRAME_DIVISOR] = (Shown(e)[k] + 1) % 3
              /\ k + 3 * FRAME_DIVISOR \in DOMAIN Shown(e) =>
                    Shown(e)[k + 3 * FRAME_DIVISOR] = Shown(e)[k]
        /\ "Animator" \in done /\ velocity[e].speed > 0 =>
              /\ Shown(e) # <<>>
              /\ sprite[e] = Facing(e)[Last(Shown(e)) + 1]
              /\ prev.velocity[e].speed > 0
                    /\ prev.velocity[e].direction # velocity[e].direction =>
                       sprite[e] = Facing(e)[1]

\* A walk that began with a turn while moving and has come back to index 0.
C11_Witness ==
    \E e \in Entities :
        /\ Shown(e) = <<0, 0, 1, 1, 2, 2, 0>>
        /\ velocity[e].direction = "Left"
        /\ sprite[e] = animation[e].left_frames[1]

\* C12: whenever the Animator has run, an entity with speed 0 displays frame 0
\* of the direction it faces and its counter is 0; a further idle frame changes
\* neither; and the first frame of movement after idle displays frame 0 of the
\* walk.
C12_IdleIdempotent ==
    \A e \in Entities :
        "Animator" \in done =>
            /\ velocity[e].speed = 0 =>
                  /\ sprite[e] = Facing(e)[1]
                  /\ animation[e].current_frame = 0
                  /\ prev.velocity[e] = velocity[e] =>
                        /\ sprite[e] = prev.sprite[e]
                        /\ animation[e].current_frame = prev.current_frame[e]
            /\ velocity[e].speed > 0 /\ prev.velocity[e].speed = 0 =>
                  /\ sprite[e] = Facing(e)[1]
                  /\ Shown(e) = <<0>>

\* The player walked Left far enough to show another frame, stopped, and has
\* now stood for a second frame.
C12_Witness ==
    \E e \in Entities :
        /\ "Animator" \in done
        /\ pc = "dispatch"
        /\ count.iter >= 4
        /\ position[e].x <= Created[e].position.x - 2 * PLAYER_MOVEMENT_SPEED
        /\ velocity[e] = [speed |-> 0, direction |-> "Left"]
        /\ prev.velocity[e] = velocity[e]
        /\ sprite[e] = animation[e].left_frames[1]

\* C13 as stated: no step of an iteration ends the loop with an error.
C13_LoopFailureFree == pc # "failed"

\* C13 as amended: the only step of an iteration that can end the loop with
\* an error is the render call, after the update of that frame is complete;
\* otherwise the loop ends only in the poll step, on the quit signal, and
\* main returns Ok.
C13_OnlyRenderFails ==
    /\ pc = "failed" =>
          /\ done = Systems
          /\ count.write = count.iter
          /\ count.system = 4 * count.iter
          /\ count.maintain = count.iter
          /\ count.render = count.iter
          /\ count.sleep = count.iter - 1
    /\ pc = "done" =>
          /\ count.write = count.iter - 1
          /\ count.render = count.iter - 1
          /\ count.sleep = count.iter - 1

C13_Witness ==
    /\ pc = "failed"
    /\ count.iter = 2
    /\ count.render = 2
    /\ count.sleep = 1

\* The animation of an entity as it was built: its counter at 0.
Unplayed(anim) == [anim EXCEPT !.current_frame = 0]

\* C14: in every state of the loop there are exactly 4 entities, each with the
\* tags it was created with and with all of its components, and the frames
\* of its animation are those it was built with; the commit changes nothing.
C14_EntitySetFixed ==
    /\ Cardinality(DOMAIN tags) = 4
    /\ DOMAIN tags = Entities
    /\ DOMAIN position = Entities
    /\ DOMAIN velocity = Entities
    /\ DOMAIN sprite = Entities
    /\ DOMAIN animation = Entities
    /\ \A e \in Entities :
          /\ tags[e] = Created[e].tags
          /\ tags[e] \in {{"KeyboardControlled"}, {"Enemy"}}
          /\ Unplayed(animation[e]) = Created[e].animation

C14_Witness ==
    /\ pc = "render"
    /\ count.maintain = 2
    /\ Cardinality(DOMAIN tags) = 4
    /\ \E e \in Entities : "Enemy" \in tags[e] /\ position[e] # Created[e].position
    /\ \E e \in Entities : velocity[e].speed = 0

\* The animations as they were at the end of the previous frame.
PrevAnimation ==
    [e \in Entities |-> [animation[e] EXCEPT !.current_frame = prev.current_frame[e]]]

\* C15: however the per-entity updates of Physics and Animator interleave,
\* an entity Physics has updated has the Position one Physics step gives from
\* the previous frame and the Velocity of this frame, an entity Animator has
\* updated has the Sprite and animation state one Animator step gives, and
\* until then each keeps the value of the previous frame: the end of the
\* frame is the same in every order.
C15_PhysicsAnimatorIndependent ==
    pc = "dispatch" =>
        \A e \in Entities :
            /\ position[e] =
                  IF <<"Physics", e>> \in part
                  THEN PhysicsRun(prev.position, velocity)[e]
                  ELSE prev.position[e]
            /\ sprite[e] =
                  IF <<"Animator", e>> \in part
                  THEN AnimatorSprite(velocity, prev.sprite, PrevAnimation)[e]
                  ELSE prev.sprite[e]
            /\ animation[e] =
                  IF <<"Animator", e>> \in part
                  THEN AnimatorAnimation(velocity, prev.sprite, PrevAnimation)[e]
                  ELSE PrevAnimation[e]

\* Animator has finished the moving player and a moving enemy while Physics
\* has moved only the player.
C15_Witness ==
    /\ pc = "dispatch"
    /\ "Animator" \in done
    /\ "Physics" \notin done
    /\ \E e \in Entities :
          /\ "KeyboardControlled" \in tags[e]
          /\ <<"Physics", e>> \in part
          /\ position[e] # prev.position[e]
          /\ sprite[e] # prev.sprite[e]
    /\ \E e \in Entities :
          /\ "Enemy" \in tags[e]
          /\ <<"Physics", e>> \notin part
          /\ velocity[e].speed > 0
          /\ position[e] = prev.position[e]
          /\ sprite[e] # prev.sprite[e]

\* How often each step has run when main is at a given place of iteration n.
StepCounts(write, system, maintain, render, sleep) ==
    [iter |-> count.iter, write |-> write, system |-> system,
     maintain |-> maintain, render |-> render, sleep |-> sleep]

\* C16: an iteration that does not quit runs poll, write, the four systems,
\* commit, render and sleep in this order, each once; when main is at the
\* render call all four systems of the frame and the commit have finished, and
\* the state it reads is the complete update of the previous frame's state.
C16_StepOrder ==
    LET n == count.iter
    IN  /\ pc = "top" => count = StepCounts(n, 4 * n, n, n, n)
        /\ pc = "poll" => count = StepCounts(n - 1, 4 * (n - 1), n - 1, n - 1, n - 1)
        /\ pc = "dispatch" =>
              count = StepCounts(n, 4 * (n - 1) + Cardinality(done), n - 1, n - 1, n - 1)
        /\ pc = "render" => count = StepCounts(n, 4 * n, n, n - 1, n - 1)
        /\ pc = "sleep" => count = StepCounts(n, 4 * n, n, n, n - 1)
        /\ pc \in {"render", "sleep"} =>
              /\ done = Systems
              /\ \A e \in Entities :
                    "KeyboardControlled" \in tags[e] =>
                        velocity[e] = KeyboardRun(tags, prev.velocity, resource)[e]
              /\ position = PhysicsRun(prev.position, velocity)
              /\ sprite = AnimatorSprite(velocity, prev.sprite, PrevAnimation)
              /\ animation = AnimatorAnimation(velocity, prev.sprite, PrevAnimation)

\* The render call of the second frame, with entities moved and sprites changed.
C16_Witness ==
    /\ pc = "render"
    /\ count.iter = 2
    /\ count.render = 1
    /\ position # prev.position
    /\ sprite # prev.sprite
    /\ velocity # prev.velocity

\* The sprite sheet row the claim gives for a direction.
Row(direction) ==
    CASE direction = "Down" -> 0
      [] direction = "Left" -> 1
      [] direction = "Right" -> 2
      [] direction = "Up" -> 3

\* The 12 regions of the animation of one entity.
Regions(anim) ==
    {FramesOf(anim, d)[k].region : d \in Directions, k \in 1..3}

\* C17: character_animation_frames(sheet, top_left, d) returns exactly 3
\* sprites of sheet; sprite k (k = 0, 1, 2) has the region at
\* x = top_left.x + width * k, y = top_left.y + height * row(d), of the size of
\* top_left, with row(Down) = 0, row(Left) = 1, row(Right) = 2, row(Up) = 3;
\* every animation built at startup has 3 frames for each direction, and its
\* 12 regions are pairwise distinct.
C17_AnimationFrames ==
    /\ call.kind = "Return" =>
          LET top_left == call.top_left_frame
          IN  /\ Len(call.frames) = 3
              /\ DOMAIN call.frames = 1..3
              /\ \A k \in 0..2 :
                    call.frames[k + 1] =
                        [spritesheet |-> call.spritesheet,
                         region |-> [x |-> top_left.x + top_left.w * k,
                                     y |-> top_left.y + top_left.h * Row(call.direction),
                                     w |-> top_left.w,
                                     h |-> top_left.h]]
    /\ \A e \in Entities :
          /\ \A d \in Directions : Len(FramesOf(animation[e], d)) = 3
          /\ Cardinality(Regions(animation[e])) = 12

C17_Witness ==
    /\ call.kind = "Return"
    /\ call.direction = "Left"
    /\ call.top_left_frame = [x |-> 5, y |-> 7, w |-> 32, h |-> 48]
    /\ call.frames[3].region = [x |-> 69, y |-> 55, w |-> 32, h |-> 48]
    /\ animation[1].left_frames[2].region = [x |-> 26, y |-> 36, w |-> 26, h |-> 36]

\* A relevant event: a key-down or key-up of an arrow key that is no repeat.
Relevant(event) ==
    /\ event.type \in {"KeyDown", "KeyUp"}
    /\ event.keycode \in Directions
    /\ ~event.repeat

\* The last relevant event of a batch, NoEvent if it has none.
LastRelevant(batch) ==
    LET at == {k \in DOMAIN batch : Relevant(batch[k])}
    IN  IF at = {} THEN NoEvent
        ELSE batch[CHOOSE k \in at : \A other \in at : other <= k]

\* C18: when the events of a frame have been drained without a quit, the
\* command handed to the update is the one the last relevant event gives on
\* its own (none if there was no relevant event), whatever came before it,
\* and draining the events has changed no entity.
C18_LastEventDecides ==
    pc = "dispatch" =>
        /\ resource = Delivered(LastRelevant(polled))
        /\ Snapshot(position, velocity, sprite, animation) = prev

\* Right is pressed and held, then Left is released: Stop is delivered.
C18_Witness ==
    /\ pc = "dispatch"
    /\ polled = <<[type |-> "KeyDown", keycode |-> "Right", repeat |-> FALSE],
                  [type |-> "KeyUp", keycode |-> "Left", repeat |-> FALSE]>>
    /\ resource = [kind |-> "Stop"]

\* C19: no entity has both the KeyboardControlled and the Enemy tag; within a
\* dispatch Keyboard changes the Velocity of no Enemy and AI that of no
\* KeyboardControlled entity, and once Keyboard has run the Velocity of the
\* player is the one Keyboard gives from the previous frame's Velocity and
\* the command, whether AI ran before it, after it or not yet.
C19_DisjointWriters ==
    /\ \A e \in Entities : ~({"KeyboardControlled", "Enemy"} \subseteq tags[e])
    /\ pc = "dispatch" =>
          \A e \in Entities :
              /\ ("Enemy" \in tags[e] /\ "AI" \notin done) =>
                    velocity[e] = prev.velocity[e]
              /\ ("KeyboardControlled" \in tags[e] /\ "Keyboard" \notin done) =>
                    velocity[e] = prev.velocity[e]
              /\ ("KeyboardControlled" \in tags[e] /\ "Keyboard" \in done) =>
                    velocity[e] = KeyboardRun(tags, prev.velocity, resource)[e]

\* AI ran first and set an enemy walking, then Keyboard set the player walking.
C19_Witness ==
    /\ pc = "dispatch"
    /\ done = {"Keyboard", "AI"}
    /\ count.iter = 2
    /\ \E e \in Entities :
          /\ tags[e] = {"KeyboardControlled"}
          /\ velocity[e] # prev.velocity[e]
    /\ \E e \in Entities :
          /\ tags[e] = {"Enemy"}
          /\ velocity[e] # prev.velocity[e]

\* C20: the frame counter i stays within 0..254, so i + 1 and 255 - i, the
\* values computed from it as 8-bit numbers, stay within 0..255; i is the
\* number of frames run modulo 255, so it returns to the same value every 255
\* frames.
C20_CounterRange ==
    /\ i \in 0..254
    /\ i + 1 \in 0..255
    /\ 255 - i \in 0..255
    /\ i = count.write % 255
    /\ count.write >= 255 => i = (count.write - 255) % 255

\* The counter has run through all its values and is back at 0.
C20_Witness ==
    /\ count.write = 255
    /\ i = 0
    /\ pc = "top"

====
